---- MODULE Spec2Model ----
(***************************************************************************)
(* Heatwave / coldwave detection of seenno/Heatwaves (heatwave.py and      *)
(* coldwave.py).                                                           *)
(*                                                                         *)
(* A pandas Series is a function from its index labels (integers) to its   *)
(* values; list(series.index) is the ascending list of its labels.  A      *)
(* value that pandas would hold as NaN is the record field nan = TRUE.     *)
(*                                                                         *)
(* Two specifications:                                                     *)
(*   StatsSpec  year_stn_stats, one action per statement group and one per *)
(*              branch of the loop body, on a drawn station-year           *)
(*   Spec       process_df, one action per (year, station) cell, on a      *)
(*              drawn input table and threshold                            *)
(***************************************************************************)
EXTENDS Integers, Sequences, FiniteSets, TLC

VARIABLES
    variant,    \* "heat" (heatwave.py) or "cold" (coldwave.py)
    pc,         \* position in the running function
    \* ---- year_stn_stats (StatsSpec)
    df_ys,      \* argument: the station-year Series
    hw_th,      \* argument: the threshold, a scalar or a Series
    hd_idx,     \* list of the crossing-day labels
    pos,        \* number of elements of hd_idx the for loop has consumed
    hws,        \* closed episodes
    hw,         \* current episode
    ret,        \* the returned tuple (n_days, n_hws, max_dur, n_days_hw)
    \* ---- process_df (Spec)
    df,         \* argument: the input table
    th_spec,    \* argument: hw_th of process_df, a scalar or a table
    years,      \* the list of years iterated
    yi,         \* 1-based position in years of the year being processed
    si,         \* 1-based position in stations of the next station
    acc,        \* days, hws, max_durs, days_hws: dicts year -> (station -> value)
    call,       \* the arguments and locals of the latest year_stn_stats call
    out         \* the four returned tables

statsVars == <<df_ys, hw_th, hd_idx, pos, hws, hw, ret>>
dfVars == <<df, th_spec, years, yi, si, acc, call, out>>
vars == <<variant, pc, df_ys, hw_th, hd_idx, pos, hws, hw, ret,
          df, th_spec, years, yi, si, acc, call, out>>

----------------------------------------------------------------------------
(* Program constants *)

hw_min_days == 3

heat_fixed_th == 30

cold_fixed_th == -15

LeapLabel == 151

(* Bounds of the model *)

MaxDays == 7

MaxRows == 4

----------------------------------------------------------------------------
(* Sequences and Series *)

Last(s) == s[Len(s)]

RECURSIVE Sum(_)
Sum(s) == IF s = <<>> THEN 0 ELSE Head(s) + Sum(Tail(s))

RECURSIVE MaxOf(_)
MaxOf(s) == IF Len(s) = 1 THEN s[1]
            ELSE LET m == MaxOf(Tail(s)) IN IF s[1] >= m THEN s[1] ELSE m

SetMin(S) == CHOOSE x \in S : \A y \in S : x <= y

SetMax(S) == CHOOSE x \in S : \A y \in S : x >= y

(* list(index) of a set of labels: ascending *)
IndexList(S) ==
    IF S = {} THEN <<>>
    ELSE LET lo == SetMin(S)
             hi == SetMax(S)
         IN  SelectSeq([k \in 1..(hi - lo + 1) |-> lo + k - 1], LAMBDA x : x \in S)

Range(s) == {s[k] : k \in 1..Len(s)}

FixedTh(v) == IF v = "heat" THEN heat_fixed_th ELSE cold_fixed_th

Scalar(x) == [kind |-> "scalar", v |-> x, s |-> <<>>]

SeriesTh(f) == [kind |-> "series", v |-> 0, s |-> f]

(* df_ys - hw_th for two Series: aligned on the union of the labels, NaN   *)
(* where either side has no entry.                                         *)
SeriesSub(a, b) ==
    [i \in (DOMAIN a) \cup (DOMAIN b) |->
        IF i \in DOMAIN a /\ i \in DOMAIN b
        THEN [nan |-> FALSE, v |-> a[i] - b[i]]
        ELSE [nan |-> TRUE, v |-> 0]]

----------------------------------------------------------------------------
(* year_stn_stats *)

CrossingLabels(v, ys, th) ==
    IF v = "heat"
    THEN {i \in DOMAIN ys : ys[i] >= th.v}
    ELSE IF th.kind = "series"
         THEN LET d == SeriesSub(ys, th.s)
              IN {i \in DOMAIN d : ~d[i].nan /\ d[i].v <= 0}
         ELSE {i \in DOMAIN ys : ys[i] <= th.v}

HdIdx(v, ys, th) == IndexList(CrossingLabels(v, ys, th))

(* The loop body with the bridging branch commented out, as the comment in *)
(* coldwave.py invites.                                                    *)
LoopBodyNoBridge(st, day) ==
    IF Len(st.hw) = 0
    THEN [hws |-> st.hws, hw |-> Append(st.hw, day)]
    ELSE IF day - Last(st.hw) = 1
    THEN [hws |-> st.hws, hw |-> Append(st.hw, day)]
    ELSE [hws |-> Append(st.hws, st.hw), hw |-> <<day>>]

(* The loop body bridging a gap of two days as well as a gap of one. *)
LoopBodyWideBridge(st, day) ==
    IF Len(st.hw) = 0
    THEN [hws |-> st.hws, hw |-> Append(st.hw, day)]
    ELSE IF day - Last(st.hw) = 1
    THEN [hws |-> st.hws, hw |-> Append(st.hw, day)]
    ELSE IF day - Last(st.hw) <= 3
    THEN [hws |-> st.hws, hw |-> Append(Append(st.hw, day - 1), day)]
    ELSE [hws |-> Append(st.hws, st.hw), hw |-> <<day>>]

(* One iteration of "for day in hd_idx" on the pair (hws, hw). *)
LoopBody(st, day) ==
    IF Len(st.hw) = 0
    THEN [hws |-> st.hws, hw |-> Append(st.hw, day)]
    ELSE IF day - Last(st.hw) = 1
    THEN [hws |-> st.hws, hw |-> Append(st.hw, day)]
    ELSE IF day - Last(st.hw) = 2
    THEN [hws |-> st.hws, hw |-> Append(Append(st.hw, day - 1), day)]
    ELSE [hws |-> Append(st.hws, st.hw), hw |-> <<day>>]

(* Closing that leaves an empty current episode out of the list. *)
CloseLastSkipEmpty(st) == IF st.hw = <<>> THEN st.hws ELSE Append(st.hws, st.hw)

(* hws.append(hw) after the loop *)
CloseLast(st) == Append(st.hws, st.hw)

Durations(eps) == [k \in 1..Len(eps) |-> Len(eps[k])]

(* The qualifying test with > in place of >=. *)
DurationsHwsStrict(durations) == SelectSeq(durations, LAMBDA d : d > hw_min_days)

DurationsHws(durations) == SelectSeq(durations, LAMBDA d : d >= hw_min_days)

(* n_days as coldwave.py computes it, in both scripts. *)
NDaysCrossingOnly(v, durations, idx) == Len(idx)

NDays(v, durations, idx) == IF v = "heat" THEN Sum(durations) ELSE Len(idx)

(* The statistics; max() of an empty list raises ValueError. *)
StatsOf(v, eps, idx) ==
    LET durations == Durations(eps)
        durations_hws == DurationsHws(durations)
    IN  IF durations = <<>>
        THEN [err |-> "ValueError", n_days |-> 0, n_hws |-> 0, max_dur |-> 0,
              n_days_hw |-> 0]
        ELSE [err |-> "none",
              n_days |-> NDays(v, durations, idx),
              n_hws |-> Len(durations_hws),
              max_dur |-> MaxOf(durations),
              n_days_hw |-> Sum(durations_hws)]

RECURSIVE Fold(_, _)
Fold(st, idx) == IF idx = <<>> THEN st ELSE Fold(LoopBody(st, Head(idx)), Tail(idx))

(* The whole function, as process_df calls it. *)
YearStnStats(v, ys, th) ==
    LET idx == HdIdx(v, ys, th)
        eps == CloseLast(Fold([hws |-> <<>>, hw |-> <<>>], idx))
    IN  [hd_idx |-> idx, hws |-> eps, ret |-> StatsOf(v, eps, idx)]

NoRet == [err |-> "unset", n_days |-> 0, n_hws |-> 0, max_dur |-> 0, n_days_hw |-> 0]

----------------------------------------------------------------------------
(* StatsSpec: the inputs of one year_stn_stats call *)

Temps(v) == {FixedTh(v) - 1, FixedTh(v), FixedTh(v) + 1}

(* heatwave.py slices the table without reset_index, so a station-year's   *)
(* labels start at the year's first row; coldwave.py resets them to 0.     *)
IndexBases(v) == IF v = "heat" THEN {0, 365} ELSE {0}

SeriesSet(base, n, vals) == [base..(base + n - 1) -> vals]

(* Per-day thresholds: the fixed value, or one that varies with the day.   *)
ThPattern(p, i) == IF p = "flat" THEN cold_fixed_th ELSE cold_fixed_th + (i % 2)

ThSeries(p, n) == [i \in 0..(n - 1) |-> ThPattern(p, i)]

ThSeriesLens(n) == {m \in {n - 1, n, n + 1} : m >= 0}

Thresholds(v, n) ==
    {Scalar(FixedTh(v))} \cup
    (IF v = "cold"
     THEN {SeriesTh(ThSeries(p, m)) : p \in {"flat", "odd"}, m \in ThSeriesLens(n)}
     ELSE {})

NoDf == [Aasta |-> <<>>, cols |-> <<>>]

NoCall == [made |-> FALSE, year |-> 0, stn |-> "", df_ys |-> <<>>,
           stn_hw_th |-> Scalar(0), hd_idx |-> <<>>, hws |-> <<>>, ret |-> NoRet]

DfIdle ==
    /\ df = NoDf /\ th_spec = Scalar(0) /\ years = <<>> /\ yi = 0 /\ si = 0
    /\ acc = <<>> /\ call = NoCall /\ out = <<>>

StatsInit ==
    /\ variant \in {"heat", "cold"}
    /\ \E n \in 0..MaxDays : \E b \in IndexBases(variant) :
          /\ df_ys \in SeriesSet(b, n, Temps(variant))
          /\ hw_th \in Thresholds(variant, n)
    /\ pc = "select"
    /\ hd_idx = <<>> /\ pos = 0 /\ hws = <<>> /\ hw = <<>> /\ ret = NoRet
    /\ DfIdle

(* hd_idx = list(df_ys[...].index); hws = []; hw = [] *)
Select ==
    /\ pc = "select"
    /\ hd_idx' = HdIdx(variant, df_ys, hw_th)
    /\ hws' = <<>> /\ hw' = <<>> /\ pos' = 0
    /\ pc' = "loop"
    /\ UNCHANGED <<variant, df_ys, hw_th, ret>>
    /\ UNCHANGED dfVars

LoopStep(day) ==
    LET st == LoopBody([hws |-> hws, hw |-> hw], day)
    IN  /\ hws' = st.hws /\ hw' = st.hw
        /\ pos' = pos + 1
        /\ UNCHANGED <<variant, pc, df_ys, hw_th, hd_idx, ret>>
        /\ UNCHANGED dfVars

(* if len(hw) == 0: hw.append(day) *)
StartEpisode ==
    /\ pc = "loop" /\ pos < Len(hd_idx)
    /\ Len(hw) = 0
    /\ LoopStep(hd_idx[pos + 1])

(* if day - hw[-1] == 1: hw.append(day) *)
Extend ==
    /\ pc = "loop" /\ pos < Len(hd_idx)
    /\ Len(hw) > 0 /\ hd_idx[pos + 1] - Last(hw) = 1
    /\ LoopStep(hd_idx[pos + 1])

(* elif day - hw[-1] == 2: hw.append(day - 1); hw.append(day) *)
Bridge ==
    /\ pc = "loop" /\ pos < Len(hd_idx)
    /\ Len(hw) > 0 /\ hd_idx[pos + 1] - Last(hw) = 2
    /\ LoopStep(hd_idx[pos + 1])

(* else: hws.append(hw); hw = [day] *)
CloseEpisode ==
    /\ pc = "loop" /\ pos < Len(hd_idx)
    /\ Len(hw) > 0 /\ hd_idx[pos + 1] - Last(hw) \notin {1, 2}
    /\ LoopStep(hd_idx[pos + 1])

(* hws.append(hw) and the statistics, up to the return *)
Finish ==
    /\ pc = "loop" /\ pos = Len(hd_idx)
    /\ hws' = CloseLast([hws |-> hws, hw |-> hw])
    /\ ret' = StatsOf(variant, hws', hd_idx)
    /\ pc' = IF ret'.err = "none" THEN "returned" ELSE ret'.err
    /\ UNCHANGED <<variant, df_ys, hw_th, hd_idx, pos, hw>>
    /\ UNCHANGED dfVars

StatsNext == Select \/ StartEpisode \/ Extend \/ Bridge \/ CloseEpisode \/ Finish

StatsSpec == StatsInit /\ [][StatsNext]_vars

----------------------------------------------------------------------------
(* process_df *)

(* list(df.columns)[3:] of the input table *)
Stations == <<"S1", "S2">>

StrLabel(chars) == [kind |-> "str", chars |-> chars, n |-> 0]

IntLabel(n) == [kind |-> "int", chars |-> <<>>, n |-> n]

(* df["Aasta"].unique(): the distinct labels in order of first appearance *)
RECURSIVE Unique(_)
Unique(col) ==
    IF col = <<>> THEN <<>>
    ELSE LET rest == Unique(SelectSeq(Tail(col), LAMBDA y : y # Head(col)))
         IN  <<Head(col)>> \o rest

(* The filter keeping the labels of exactly four characters. *)
KeepYearFour(y) == Len(y.chars) = 4

(* years = [y for y in years if len(y) > 4]; len() of a number raises      *)
(* TypeError.  heatwave.py has no such line.                               *)
KeepYear(y) == Len(y.chars) > 4

YearList(v, t) ==
    LET u == Unique(t.Aasta)
    IN  IF v = "heat" THEN [err |-> "none", years |-> u]
        ELSE IF \E k \in 1..Len(u) : u[k].kind = "int"
        THEN [err |-> "TypeError", years |-> <<>>]
        ELSE [err |-> "none", years |-> SelectSeq(u, KeepYear)]

(* df[df['Aasta'] == year][stn]: the rows of the year under their row      *)
(* labels (the table has a RangeIndex)                                    *)
YearSlice(t, year, stn) ==
    [i \in {r - 1 : r \in {q \in 1..Len(t.Aasta) : t.Aasta[q] = year}} |-> t.cols[stn][i + 1]]

(* series.reset_index(drop=True) *)
ResetIndex(ser) ==
    LET idx == IndexList(DOMAIN ser)
    IN  [k \in 0..(Len(idx) - 1) |-> ser[idx[k + 1]]]

(* df_ys of a cell: coldwave.py resets the index, heatwave.py does not *)
CellSeries(v, t, year, stn) ==
    IF v = "cold" THEN ResetIndex(YearSlice(t, year, stn)) ELSE YearSlice(t, year, stn)

(* The station test left out: no station is ever skipped. *)
SkipsStationNever(v, th, stn) == FALSE

(* isinstance(hw_th, pd.DataFrame) and stn not in list(hw_th.columns)[3:] *)
SkipsStation(v, th, stn) == v = "cold" /\ th.kind = "table" /\ stn \notin th.stations

(* get_station_th: hw_th[station], or hw_th itself on the TypeError that a  *)
(* number raises; a table without the column raises KeyError, which is not *)
(* caught.                                                                 *)
GetStationTh(stn, th) ==
    IF th.kind = "table"
    THEN IF stn \in th.stations
         THEN [err |-> "none", th |-> SeriesTh(th.col[stn])]
         ELSE [err |-> "KeyError", th |-> Scalar(0)]
    ELSE [err |-> "none", th |-> Scalar(th.v)]

(* The test that guards the drop of the 29 February threshold. *)
NeedsDrop(th, ys) == th.kind = "series" /\ Cardinality(DOMAIN th.s) > Cardinality(DOMAIN ys)

(* stn_hw_th.drop(labels=[151], axis=0).reset_index(drop=True); drop      *)
(* raises KeyError when the label is not in the index.                    *)
DropLeap(th) ==
    IF LeapLabel \in DOMAIN th.s
    THEN [err |-> "none",
          th |-> SeriesTh(ResetIndex([i \in (DOMAIN th.s) \ {LeapLabel} |-> th.s[i]]))]
    ELSE [err |-> "KeyError", th |-> th]

(* The threshold handed to year_stn_stats for a cell. *)
CellThreshold(v, th, stn, ys) ==
    IF v = "heat" THEN [err |-> "none", th |-> Scalar(th.v)]
    ELSE LET stn_hw_th == GetStationTh(stn, th)
         IN  IF stn_hw_th.err # "none" THEN stn_hw_th
             ELSE IF NeedsDrop(stn_hw_th.th, ys) THEN DropLeap(stn_hw_th.th)
             ELSE stn_hw_th

(* d[key] = value on a dict held as a function *)
Put(d, key, value) == [x \in (DOMAIN d) \cup {key} |-> IF x = key THEN value ELSE d[x]]

Num(x) == [nan |-> FALSE, v |-> x]

NaN == [nan |-> TRUE, v |-> 0]

(* pd.DataFrame(d).transpose() of a dict year -> (station -> value), held   *)
(* as the sequence of its items: a row per key, a column per station that *)
(* some row has, NaN where a row lacks the station.                       *)
Frame(items, name) ==
    LET columns == UNION {DOMAIN items[k][name] : k \in 1..Len(items)}
    IN  [index |-> [k \in 1..Len(items) |-> items[k].year],
         columns |-> columns,
         cell |-> [k \in 1..Len(items) |->
                     [c \in columns |->
                        IF c \in DOMAIN items[k][name] THEN Num(items[k][name][c]) ELSE NaN]]]

(* The zeroing with <= in place of <. *)
ZeroShortInclusive(x) == IF ~x.nan /\ x.v <= hw_min_days THEN Num(0) ELSE x

(* max_durs[max_durs < hw_min_days] = 0; NaN < 3 is False *)
ZeroShort(x) == IF ~x.nan /\ x.v < hw_min_days THEN Num(0) ELSE x

ZeroBelowMin(frame) ==
    [frame EXCEPT !.cell = [k \in DOMAIN frame.cell |->
                              [c \in frame.columns |-> ZeroShort(frame.cell[k][c])]]]

EmptyYear == [days |-> <<>>, hws |-> <<>>, max_durs |-> <<>>, days_hws |-> <<>>]

----------------------------------------------------------------------------
(* Spec: the inputs of one process_df call *)

Y2001 == StrLabel(<<"2", "0", "0", "1">>)

Season9192 == StrLabel(<<"1", "9", "9", "1", "/", "9", "2">>)

Season9293 == StrLabel(<<"1", "9", "9", "2", "/", "9", "3">>)

Y20x1 == StrLabel(<<"2", "0", "x", "1">>)

Labels == {Y2001, Season9192, Season9293, Y20x1, IntLabel(2003)}

(* A crossing and a non-crossing temperature for the fixed threshold. *)
DfTemps(v) == IF v = "heat" THEN {heat_fixed_th - 1, heat_fixed_th}
              ELSE {cold_fixed_th, cold_fixed_th + 1}

(* The Aasta column: rows of one year, or of two years one after the other. *)
AastaColumns(n) ==
    {[r \in 1..n |-> a] : a \in Labels} \cup
    {[r \in 1..n |-> IF r <= x[1] THEN x[2] ELSE x[3]] :
        x \in {y \in (1..(n - 1)) \X Labels \X Labels : y[2] # y[3]}}

Reverse(col) == [r \in 1..Len(col) |-> col[Len(col) + 1 - r]]

StationColumns(col) == [stn \in Range(Stations) |-> IF stn = "S1" THEN col ELSE Reverse(col)]

ShortTables(v) ==
    UNION {{[Aasta |-> a, cols |-> StationColumns(c)] :
                a \in AastaColumns(n), c \in [1..n -> DfTemps(v)]} : n \in 0..MaxRows}

(* A season long enough to hold row 151: no crossing day outside the days  *)
(* around that row.                                                        *)
LongWindow == (LeapLabel - 1)..(LeapLabel + 2)

LongTables(v) ==
    {[Aasta |-> [r \in 1..n |-> Season9192],
      cols |-> StationColumns([r \in 1..n |->
                  IF r \in DOMAIN w THEN w[r] ELSE FixedTh(v) + (IF v = "heat" THEN -1 ELSE 2)])] :
        n \in {LeapLabel, LeapLabel + 1}, w \in [LongWindow -> DfTemps(v)]}

TableTh(stns, len) ==
    [kind |-> "table", v |-> 0, stations |-> stns,
     col |-> [stn \in stns |-> ThSeries(IF stn = "S1" THEN "odd" ELSE "flat", len)]]

FixedSpec(v) == [kind |-> "scalar", v |-> FixedTh(v), stations |-> {}, col |-> <<>>]

TableLens(t) == {m \in (Len(t.Aasta) - 1)..(Len(t.Aasta) + 2) : m >= 0}

(* heatwave.py's input_reader never yields a threshold table. *)
ThSpecs(v, t) ==
    {FixedSpec(v)} \cup
    (IF v = "cold"
     THEN {TableTh(stns, len) : stns \in {{"S1", "S2"}, {"S1"}, {}}, len \in TableLens(t)}
     ELSE {})

StatsIdle ==
    /\ df_ys = <<>> /\ hw_th = Scalar(0) /\ hd_idx = <<>> /\ pos = 0
    /\ hws = <<>> /\ hw = <<>> /\ ret = NoRet

Init ==
    /\ variant \in {"heat", "cold"}
    /\ df \in ShortTables(variant) \cup LongTables(variant)
    /\ th_spec \in ThSpecs(variant, df)
    /\ pc = "years"
    /\ years = <<>> /\ yi = 0 /\ si = 0
    /\ acc = [done |-> <<>>, cur |-> EmptyYear]
    /\ call = NoCall
    /\ out = <<>>
    /\ StatsIdle

(* years = df["Aasta"].unique(), the filter of coldwave.py, and the empty  *)
(* dicts before the loop                                                   *)
ListYears ==
    /\ pc = "years"
    /\ LET yl == YearList(variant, df)
       IN  /\ years' = yl.years
           /\ pc' = IF yl.err = "none" THEN "cells" ELSE yl.err
    /\ yi' = 1 /\ si' = 1
    /\ UNCHANGED <<variant, df, th_spec, acc, call, out>>
    /\ UNCHANGED statsVars

(* if isinstance(hw_th, pd.DataFrame) and stn not in ...: continue *)
SkipStation ==
    /\ pc = "cells" /\ yi <= Len(years) /\ si <= Len(Stations)
    /\ SkipsStation(variant, th_spec, Stations[si])
    /\ si' = si + 1
    /\ UNCHANGED <<variant, pc, df, th_spec, years, yi, acc, call, out>>
    /\ UNCHANGED statsVars

(* One station of one year: the slice, the threshold, year_stn_stats and  *)
(* the four dict entries.                                                  *)
ProcessCell ==
    /\ pc = "cells" /\ yi <= Len(years) /\ si <= Len(Stations)
    /\ ~SkipsStation(variant, th_spec, Stations[si])
    /\ LET stn == Stations[si]
           ys == CellSeries(variant, df, years[yi], stn)
           ct == CellThreshold(variant, th_spec, stn, ys)
           r == YearStnStats(variant, ys, ct.th)
       IN  IF ct.err # "none"
           THEN /\ pc' = ct.err
                /\ UNCHANGED <<si, acc, call>>
           ELSE /\ call' = [made |-> TRUE, year |-> yi, stn |-> stn, df_ys |-> ys,
                            stn_hw_th |-> ct.th, hd_idx |-> r.hd_idx, hws |-> r.hws,
                            ret |-> r.ret]
                /\ IF r.ret.err # "none"
                   THEN pc' = r.ret.err /\ UNCHANGED <<si, acc>>
                   ELSE /\ acc' = [acc EXCEPT !.cur =
                                     [days |-> Put(acc.cur.days, stn, r.ret.n_days),
                                      hws |-> Put(acc.cur.hws, stn, r.ret.n_hws),
                                      max_durs |-> Put(acc.cur.max_durs, stn, r.ret.max_dur),
                                      days_hws |-> Put(acc.cur.days_hws, stn, r.ret.n_days_hw)]]
                        /\ si' = si + 1
                        /\ pc' = pc
    /\ UNCHANGED <<variant, df, th_spec, years, yi, out>>
    /\ UNCHANGED statsVars

(* days[year] = days_y, ... and the next year with fresh dicts *)
EndYear ==
    /\ pc = "cells" /\ yi <= Len(years) /\ si > Len(Stations)
    /\ acc' = [done |-> Append(acc.done, [year |-> years[yi], days |-> acc.cur.days,
                                          hws |-> acc.cur.hws, max_durs |-> acc.cur.max_durs,
                                          days_hws |-> acc.cur.days_hws]),
               cur |-> EmptyYear]
    /\ yi' = yi + 1 /\ si' = 1
    /\ UNCHANGED <<variant, pc, df, th_spec, years, call, out>>
    /\ UNCHANGED statsVars

(* The four DataFrames, the zeroing of max_durs, and the return. *)
Return ==
    /\ pc = "cells" /\ yi > Len(years)
    /\ out' = [days |-> Frame(acc.done, "days"),
               hws |-> Frame(acc.done, "hws"),
               max_durs |-> ZeroBelowMin(Frame(acc.done, "max_durs")),
               days_hws |-> Frame(acc.done, "days_hws")]
    /\ pc' = "returned"
    /\ UNCHANGED <<variant, df, th_spec, years, yi, si, acc, call>>
    /\ UNCHANGED statsVars

Next == ListYears \/ SkipStation \/ ProcessCell \/ EndYear \/ Return

Spec == Init /\ [][Next]_vars

----------------------------------------------------------------------------
(* Properties of year_stn_stats, stated on StatsSpec *)

(* Day i of the station-year individually meets the threshold. *)
Meets(i) ==
    /\ i \in DOMAIN df_ys
    /\ IF hw_th.kind = "scalar"
       THEN IF variant = "heat" THEN df_ys[i] >= hw_th.v ELSE df_ys[i] <= hw_th.v
       ELSE i \in DOMAIN hw_th.s /\ df_ys[i] <= hw_th.s[i]

Returned == pc = "returned"

EpisodeSet(eps) == {eps[k] : k \in 1..Len(eps)}

Ascending(e) == \A a, b \in 1..Len(e) : a < b => e[a] < e[b]

Consecutive(e) == \A a \in 1..(Len(e) - 1) : e[a + 1] = e[a] + 1

CrossingIn(e) == Cardinality({a \in 1..Len(e) : Meets(e[a])})

Occurrences(eps, d) ==
    Cardinality({p \in (1..Len(eps)) \X (1..(MaxDays + 2)) :
                    p[2] <= Len(eps[p[1]]) /\ eps[p[1]][p[2]] = d})

RECURSIVE LenSum(_)
LenSum(eps) == IF eps = <<>> THEN 0 ELSE Len(Head(eps)) + LenSum(Tail(eps))

Qualifying(eps) == SelectSeq(eps, LAMBDA e : Len(e) >= hw_min_days)

(* C1: the episode list is ascending and pairwise non-overlapping, and the  *)
(* first index of an episode minus the last index of the episode before it *)
(* is greater than 2, in both variants.                                    *)
C1_EpisodesSeparated ==
    Returned =>
        /\ \A k \in 1..Len(hws) : Ascending(hws[k])
        /\ \A j, k \in 1..Len(hws) : j < k =>
              \A a \in 1..Len(hws[j]) : \A b \in 1..Len(hws[k]) : hws[j][a] < hws[k][b]
        /\ \A k \in 1..(Len(hws) - 1) :
              /\ hws[k] # <<>> /\ hws[k + 1] # <<>>
              /\ hws[k + 1][1] - Last(hws[k]) > 2

C1_Witness ==
    /\ Returned /\ Len(hws) >= 2
    /\ \E k \in 1..(Len(hws) - 1) : hws[k + 1][1] - Last(hws[k]) = 3
    /\ \E k \in 1..Len(hws) : \E a \in 1..Len(hws[k]) : ~Meets(hws[k][a])

(* C2: every non-empty episode is a run of consecutive integers that starts *)
(* and ends on a crossing day; every crossing day is in exactly one        *)
(* episode; a day inside an episode that does not meet the threshold has a *)
(* crossing day immediately before and immediately after it.               *)
C2_EpisodeShape ==
    Returned =>
        /\ \A k \in 1..Len(hws) : hws[k] # <<>> =>
              /\ Consecutive(hws[k])
              /\ Meets(hws[k][1]) /\ Meets(Last(hws[k]))
              /\ \A a \in 1..Len(hws[k]) : ~Meets(hws[k][a]) =>
                    /\ 1 < a /\ a < Len(hws[k])
                    /\ Meets(hws[k][a] - 1) /\ Meets(hws[k][a] + 1)
        /\ \A d \in DOMAIN df_ys : Meets(d) => Occurrences(hws, d) = 1

C2_Witness ==
    /\ Returned
    /\ \E k \in 1..Len(hws) : \E a \in 1..Len(hws[k]) :
          /\ ~Meets(hws[k][a])
          /\ df_ys[hws[k][a]] # FixedTh(variant)
    /\ \E d \in DOMAIN df_ys : ~Meets(d) /\ ~Meets(d + 1) /\ Meets(d - 1) /\ d + 2 \in DOMAIN df_ys /\ Meets(d + 2)
    /\ \E d \in DOMAIN df_ys : Meets(d) /\ df_ys[d] = FixedTh(variant)

(* C3: n_hws is the number of episodes of length >= hw_min_days (bridged   *)
(* days included) and n_days_hw the sum of the lengths of exactly those;   *)
(* length hw_min_days counts, length hw_min_days - 1 does not.             *)
C3_QualifyingStats ==
    Returned =>
        /\ ret.n_hws = Cardinality({k \in 1..Len(hws) : Len(hws[k]) >= hw_min_days})
        /\ ret.n_days_hw = LenSum(Qualifying(hws))
        /\ (Len(hws) = 1 /\ Len(hws[1]) = hw_min_days) =>
              ret.n_hws = 1 /\ ret.n_days_hw = hw_min_days
        /\ (Len(hws) = 1 /\ Len(hws[1]) = hw_min_days - 1) =>
              ret.n_hws = 0 /\ ret.n_days_hw = 0

C3_Witness ==
    /\ Returned
    /\ \E k \in 1..Len(hws) : Len(hws[k]) = hw_min_days
    /\ \E k \in 1..Len(hws) : Len(hws[k]) = hw_min_days - 1
    /\ ret.n_hws = 1 /\ ret.n_days_hw = hw_min_days

(* C5: with no crossing day (the zero-length Series included) the function *)
(* returns without raising, no max() of an empty list is taken, the four   *)
(* statistics are 0, and the empty episode appended after the loop adds    *)
(* nothing to any statistic.                                               *)
NoCrossing == \A i \in DOMAIN df_ys : ~Meets(i)

NonEmpty(eps) == SelectSeq(eps, LAMBDA e : e # <<>>)

C5_NoCrossingDay ==
    /\ pc # "ValueError"
    /\ (Returned /\ NoCrossing) =>
          /\ ret.n_days = 0 /\ ret.n_hws = 0 /\ ret.max_dur = 0 /\ ret.n_days_hw = 0
    /\ Returned =>
          /\ ret.n_hws = Len(Qualifying(NonEmpty(hws)))
          /\ ret.n_days_hw = LenSum(Qualifying(NonEmpty(hws)))
          /\ ret.max_dur = (IF NonEmpty(hws) = <<>> THEN 0
                            ELSE MaxOf(Durations(NonEmpty(hws))))
          /\ (<<>> \in EpisodeSet(hws)) => NoCrossing /\ Len(hws) = 1

C5_Witness == Returned /\ NoCrossing /\ DOMAIN df_ys = {} /\ hws = << <<>> >>

C5_WitnessNonEmptySeries ==
    Returned /\ NoCrossing /\ Cardinality(DOMAIN df_ys) = MaxDays /\ hws = << <<>> >>

(* C9: every episode counted as a wave (length >= hw_min_days) holds at    *)
(* least hw_min_days days that individually meet the threshold.            *)
C9_WaveHasThreeCrossingDays ==
    Returned =>
        \A k \in 1..Len(hws) :
            Len(hws[k]) >= hw_min_days => CrossingIn(hws[k]) >= hw_min_days

(* C10 as claimed: in both scripts n_days_hw <= n_days,                    *)
(* n_days_hw >= hw_min_days * n_hws and max_dur <= n_days.                 *)
C10_Original ==
    Returned =>
        /\ ret.n_days_hw <= ret.n_days
        /\ ret.n_days_hw >= hw_min_days * ret.n_hws
        /\ ret.max_dur <= ret.n_days

BridgedDays == Cardinality({d \in DOMAIN df_ys : ~Meets(d) /\ \E e \in EpisodeSet(hws) : d \in Range(e)})

(* C10 amended: n_days_hw >= hw_min_days * n_hws in both scripts; the heat *)
(* script has n_days_hw <= n_days and max_dur <= n_days; in the cold       *)
(* script n_days counts the crossing days only, and n_days_hw and max_dur  *)
(* are bounded by n_days plus the number of bridged days.                  *)
C10_StatsConsistent ==
    Returned =>
        /\ ret.n_days_hw >= hw_min_days * ret.n_hws
        /\ variant = "heat" =>
              /\ ret.n_days_hw <= ret.n_days
              /\ ret.max_dur <= ret.n_days
        /\ variant = "cold" =>
              /\ ret.n_days = Cardinality({d \in DOMAIN df_ys : Meets(d)})
              /\ ret.n_days_hw <= ret.n_days + BridgedDays
              /\ ret.max_dur <= ret.n_days + BridgedDays

C10_Witness ==
    /\ Returned /\ variant = "cold"
    /\ ret.n_days_hw > ret.n_days /\ ret.max_dur > ret.n_days

----------------------------------------------------------------------------
(* Properties of process_df, stated on Spec *)

DfReturned == pc = "returned"

FrameNames == {"days", "hws", "max_durs", "days_hws"}

Rows(frame) == 1..Len(frame.index)

RowLabels(frame) == {frame.index[k] : k \in Rows(frame)}

InputLabels == Range(df.Aasta)

Digits == {"0", "1", "2", "3", "4", "5", "6", "7", "8", "9"}

(* A well-formed 4-digit year label: a 4-digit number or a text of 4 digits. *)
WellFormedYear(y) ==
    IF y.kind = "int" THEN y.n >= 1000 /\ y.n <= 9999
    ELSE Len(y.chars) = 4 /\ Range(y.chars) \subseteq Digits

(* The longest episode of a station-year, from the inputs. *)
LongestEpisode(year, stn) ==
    LET ys == CellSeries(variant, df, year, stn)
        eps == YearStnStats(variant, ys, CellThreshold(variant, th_spec, stn, ys).th).hws
    IN  MaxOf(Durations(eps))

(* C4: every computed cell of the max-duration table is 0 or >=            *)
(* hw_min_days: 0 when the longest episode of the station-year is shorter  *)
(* than hw_min_days, else the length of the longest episode; it is nonzero *)
(* exactly when the qualifying-episode count of the cell is at least 1.    *)
C4_MaxDurZeroed ==
    DfReturned =>
        \A k \in Rows(out.max_durs) : \A c \in out.max_durs.columns :
            LET x == out.max_durs.cell[k][c]
                longest == LongestEpisode(out.max_durs.index[k], c)
            IN  ~x.nan =>
                  /\ x.v = 0 \/ x.v >= hw_min_days
                  /\ x.v = (IF longest < hw_min_days THEN 0 ELSE longest)
                  /\ (x.v # 0) <=> (out.hws.cell[k][c].v >= 1)

C4_Witness ==
    /\ DfReturned
    /\ \E k \in Rows(out.max_durs) : \E c \in out.max_durs.columns :
          /\ acc.done[k].max_durs[c] = hw_min_days - 1
          /\ out.max_durs.cell[k][c] = Num(0)
    /\ \E k \in Rows(out.max_durs) : \E c \in out.max_durs.columns :
          /\ acc.done[k].max_durs[c] = hw_min_days
          /\ out.max_durs.cell[k][c] = Num(hw_min_days)

(* C6: with a threshold table, the threshold Series handed to              *)
(* year_stn_stats has exactly one entry per day of the station-year: with  *)
(* one entry too many the entry at position 151 is dropped and the rest    *)
(* re-aligned; with any other length mismatch an error is raised and no    *)
(* statistics are computed.                                                *)
TableColumnLen(stn) == Cardinality(DOMAIN th_spec.col[stn])

C6_ThresholdAligned ==
    (call.made /\ th_spec.kind = "table") =>
        LET n == Cardinality(DOMAIN call.df_ys)
            len == TableColumnLen(call.stn)
        IN  /\ DOMAIN call.stn_hw_th.s = DOMAIN call.df_ys
            /\ len = n \/ len = n + 1
            /\ len = n + 1 =>
                  \A i \in DOMAIN call.df_ys :
                      call.stn_hw_th.s[i] =
                          th_spec.col[call.stn][IF i < LeapLabel THEN i ELSE i + 1]

(* What the code does hold to: the drop at label 151 when the column is    *)
(* longer than the year, and no error otherwise.                           *)
ThresholdDropped ==
    /\ call.made /\ th_spec.kind = "table"
    /\ Cardinality(DOMAIN call.df_ys) = LeapLabel
    /\ TableColumnLen(call.stn) = LeapLabel + 1
    /\ DOMAIN call.stn_hw_th.s = DOMAIN call.df_ys
    /\ call.stn_hw_th.s[LeapLabel - 1] = th_spec.col[call.stn][LeapLabel - 1]
    /\ call.hd_idx # <<>>

ThresholdStillTooLong ==
    /\ call.made /\ th_spec.kind = "table"
    /\ Cardinality(DOMAIN call.df_ys) = LeapLabel
    /\ Cardinality(DOMAIN call.stn_hw_th.s) = LeapLabel + 1

(* C7 as claimed: the years that get a row are exactly the distinct        *)
(* well-formed 4-digit labels of the input, and the filter never raises.   *)
C7_Original ==
    /\ pc # "TypeError"
    /\ DfReturned =>
          \A name \in FrameNames :
              RowLabels(out[name]) = {y \in InputLabels : WellFormedYear(y)}

(* C7 amended: heatwave.py gives every distinct label a row; coldwave.py   *)
(* gives a row to exactly the distinct labels longer than 4 characters     *)
(* (a 4-digit label is skipped), and its filter raises TypeError when a    *)
(* label is a number.                                                      *)
C7_YearsIterated ==
    /\ pc = "TypeError" <=>
          (pc # "years" /\ variant = "cold" /\ \E y \in InputLabels : y.kind = "int")
    /\ DfReturned =>
          \A name \in FrameNames :
              RowLabels(out[name]) =
                  IF variant = "heat" THEN InputLabels
                  ELSE {y \in InputLabels : Len(y.chars) > 4}

C7_Witness ==
    /\ DfReturned /\ variant = "cold"
    /\ InputLabels = {Y2001, Season9192}
    /\ RowLabels(out.days) = {Season9192}

C7_WitnessHeat ==
    /\ DfReturned /\ variant = "heat"
    /\ Y20x1 \in RowLabels(out.days)

(* C8 as claimed: a station of the data that the threshold table lacks is  *)
(* skipped without an error, and each of its (year, station) cells in the  *)
(* four tables holds the not-computed marker; the stations the table has   *)
(* get all their cells computed.                                           *)
SkippedStations ==
    {stn \in Range(Stations) : th_spec.kind = "table" /\ stn \notin th_spec.stations}

C8_Original ==
    (DfReturned /\ th_spec.kind = "table") =>
        \A name \in FrameNames : \A k \in Rows(out[name]) :
            /\ \A stn \in SkippedStations :
                  /\ stn \in out[name].columns
                  /\ out[name].cell[k][stn] = NaN
            /\ \A stn \in Range(Stations) \ SkippedStations :
                  /\ stn \in out[name].columns
                  /\ ~out[name].cell[k][stn].nan

(* C8 amended: the skipped station raises no error and has no column, and  *)
(* so no cell, marker or number, in any of the four tables; the stations   *)
(* the table has get all their cells computed.                             *)
C8_SkippedStationHasNoColumn ==
    /\ (pc \in {"KeyError", "ValueError"}) => Stations[si] \notin SkippedStations
    /\ (DfReturned /\ th_spec.kind = "table") =>
          \A name \in FrameNames :
              /\ \A stn \in SkippedStations : stn \notin out[name].columns
              /\ \A k \in Rows(out[name]) : \A stn \in Range(Stations) \ SkippedStations :
                    /\ stn \in out[name].columns
                    /\ ~out[name].cell[k][stn].nan

C8_Witness ==
    /\ DfReturned /\ th_spec.kind = "table"
    /\ SkippedStations = {"S2"}
    /\ Len(out.max_durs.index) = 2
    /\ out.max_durs.columns = {"S1"}
    /\ \E k \in Rows(out.max_durs) : out.max_durs.cell[k]["S1"] = Num(0)

====
